---------------------------- MODULE Spec2Model ----------------------------
(***************************************************************************)
(* tinfoil-bolt: virtual path resolution, HTTP range parsing and the       *)
(* /files/ request handler, modelled from the TypeScript sources.          *)
(*                                                                         *)
(* A JavaScript string is a sequence of one-character strings, so that     *)
(* split, trim, the range regular expression, decimal formatting and       *)
(* percent-decoding are computed character by character.  null is the      *)
(* record Null; a non-null optional value v is Some(v).                    *)
(***************************************************************************)
EXTENDS Integers, Sequences, FiniteSets, TLC

VARIABLES
    BASES,        \* config.ts BASES: the alias table built at start-up
    authPair,     \* getAuthPair(): the configured credential pair, or Null
    call,         \* direct call of a pure library function: its arguments
    ret,          \* ... and what it returned (Null while not yet called)
    req,          \* the Request handed to the pipeline
    pc,           \* where the request is in the middleware chain / handler
    thrown,       \* the exception in flight (Null when none)
    resp,         \* the Response returned so far (Null when none)
    accessLog,    \* the logRequest() entries written for the request
    virtualPath,  \* resolveVirtualPath: its argument
    absPath,      \* resolveVirtualPath: the candidate absolute path
    resolved,     \* resolveVirtualPath: its result, Null or Some([absPath])
    consoleErr,   \* resolveVirtualPath: the "[PATH] ..." console.error lines
    file,         \* filesHandler: resolved.file as the handler read it, [size]
    ops,          \* the lookups, file-system and library calls made, in order
    now,          \* Date.now(), in milliseconds
    cache,        \* the ShopDataCache: [data, timestamp, ttlMs]
    lastSet,      \* the latest cache.set() not followed by a reset(): [at, data]
    scan,         \* the request's buildShopData() call: its tasks and locals
    served,       \* how many requests the server has been handed
    inflight      \* concurrent shop requests: each one's [pc, scan, got, resp]

cfgVars == <<BASES, authPair>>
libVars == <<call, ret>>
resolverVars == <<virtualPath, absPath, resolved, consoleErr>>
chainVars == <<req, thrown, resp, accessLog, file>>
shopVars == <<now, cache, lastSet, scan, served>>

vars == <<cfgVars, libVars, resolverVars, chainVars, shopVars, inflight, pc, ops>>

Null == [null |-> TRUE]
Some(v) == [null |-> FALSE, v |-> v]

-----------------------------------------------------------------------------
(* Bounds of the model.                                                    *)

\* longest free part of a Range header given directly to parseRange
MaxRangeBody == 4
\* largest file size given directly to parseRange
MaxRangeFileSize == 11
\* longest virtual path, in tokens, given directly to resolveVirtualPath
MaxPathTokens == 3
\* most source directories configured
MaxDirs == 2
\* longest free part of a request's Range header
MaxReqRangeBody == 3
\* largest size of a served file
MaxFileSize == 3
\* longest path after "/files/", in tokens, of a request
MaxUrlTokens == 2
\* most directories given directly to buildBaseAliases
MaxAliasDirs == 3
\* how often the clock is advanced
MaxTicks == 4
\* largest cache TTL, in seconds
MaxTtl == 2
\* most requests handed to the server in one run
MaxRequests == 2
MaxShopRequests == 2
MaxStages == 3

-----------------------------------------------------------------------------
(* Strings.                                                                *)

Min(a, b) == IF a < b THEN a ELSE b
Max(a, b) == IF a > b THEN a ELSE b

DigitChars == <<"0", "1", "2", "3", "4", "5", "6", "7", "8", "9">>

IsDigit(c) == \E d \in 1..10 : DigitChars[d] = c

DigitVal(c) == (CHOOSE d \in 1..10 : DigitChars[d] = c) - 1

\* Number -> string conversion of a template literal / string concatenation
\* (integers below 1e21 print as their decimal digits, negatives with "-").
RECURSIVE NatToString(_)
NatToString(n) ==
    IF n < 10 THEN <<DigitChars[n + 1]>>
    ELSE NatToString(n \div 10) \o <<DigitChars[(n % 10) + 1]>>

NumberToString(n) == IF n < 0 THEN <<"-">> \o NatToString(0 - n) ELSE NatToString(n)

\* parseInt(s, 10): the value of the longest prefix of decimal digits;
\* NaN when there is none.  (No sign or leading whitespace reaches it here:
\* every caller passes a \d* capture group.)
NaN == [nan |-> TRUE]

RECURSIVE DigitsValue(_, _)
DigitsValue(s, acc) ==
    IF s = <<>> \/ ~IsDigit(Head(s)) THEN acc
    ELSE DigitsValue(Tail(s), acc * 10 + DigitVal(Head(s)))

parseInt(s) ==
    IF s = <<>> \/ ~IsDigit(s[1]) THEN NaN
    ELSE [nan |-> FALSE, n |-> DigitsValue(s, 0)]

isNaN(x) == x.nan

\* s.includes(c) for a one-character needle
Includes(s, c) == \E i \in 1..Len(s) : s[i] = c

\* index of the first occurrence of character c in s, 0 when absent
IndexOf(s, c) ==
    IF Includes(s, c) THEN CHOOSE i \in 1..Len(s) : s[i] = c /\ \A j \in 1..(i - 1) : s[j] # c
    ELSE 0

\* s.split(sep) for a one-character separator
RECURSIVE Split(_, _)
Split(s, sep) ==
    LET i == IndexOf(s, sep)
    IN  IF i = 0 THEN <<s>>
        ELSE <<SubSeq(s, 1, i - 1)>> \o Split(SubSeq(s, i + 1, Len(s)), sep)

\* parts.filter(Boolean): drops the empty strings
RECURSIVE FilterBoolean(_)
FilterBoolean(parts) ==
    IF parts = <<>> THEN <<>>
    ELSE IF Head(parts) = <<>> THEN FilterBoolean(Tail(parts))
    ELSE <<Head(parts)>> \o FilterBoolean(Tail(parts))

\* parts.join(sep)
RECURSIVE Join(_, _)
Join(parts, sep) ==
    IF parts = <<>> THEN <<>>
    ELSE IF Len(parts) = 1 THEN parts[1]
    ELSE parts[1] \o sep \o Join(Tail(parts), sep)

\* the characters String.prototype.trim() strips (those the model draws)
WhiteSpace == {" ", "\t"}

RECURSIVE TrimStart(_)
TrimStart(s) ==
    IF s # <<>> /\ Head(s) \in WhiteSpace THEN TrimStart(Tail(s)) ELSE s

RECURSIVE TrimEnd(_)
TrimEnd(s) ==
    IF s # <<>> /\ s[Len(s)] \in WhiteSpace THEN TrimEnd(SubSeq(s, 1, Len(s) - 1)) ELSE s

Trim(s) == TrimEnd(TrimStart(s))

\* all sequences over set S of length at most n
RECURSIVE SeqsUpTo(_, _)
SeqsUpTo(S, n) ==
    IF n = 0 THEN {<<>>}
    ELSE LET shorter == SeqsUpTo(S, n - 1)
         IN  shorter \cup {s \o <<x>> : s \in {t \in shorter : Len(t) = n - 1}, x \in S}

\* concatenation of a sequence of strings
RECURSIVE Flatten(_)
Flatten(ss) == IF ss = <<>> THEN <<>> ELSE Head(ss) \o Flatten(Tail(ss))

-----------------------------------------------------------------------------
(* lib/range.ts                                                            *)

BytesEq == <<"b", "y", "t", "e", "s", "=">>

RangeRequest(start, end) == [null |-> FALSE, start |-> start, end |-> end]

\* (mutant) the pattern without its "$" anchor: group 2 stops at the first
\* character that is not a digit and whatever follows is ignored
RangeMatch_Unanchored(rangeHeader) ==
    IF Len(rangeHeader) < Len(BytesEq) \/ SubSeq(rangeHeader, 1, Len(BytesEq)) # BytesEq
    THEN Null
    ELSE LET rest == SubSeq(rangeHeader, Len(BytesEq) + 1, Len(rangeHeader))
             dash == IndexOf(rest, "-")
             startStr == SubSeq(rest, 1, dash - 1)
             after == SubSeq(rest, dash + 1, Len(rest))
             stop == IF \E i \in 1..Len(after) : ~IsDigit(after[i])
                     THEN (CHOOSE i \in 1..Len(after) :
                              ~IsDigit(after[i]) /\ \A j \in 1..(i - 1) : IsDigit(after[j])) - 1
                     ELSE Len(after)
         IN  IF dash = 0 THEN Null
             ELSE IF \E i \in 1..Len(startStr) : ~IsDigit(startStr[i]) THEN Null
             ELSE Some([startStr |-> startStr, endStr |-> SubSeq(after, 1, stop)])

\* rangeHeader.match(/^bytes=(\d*)-(\d*)$/): Null, or the two capture groups.
\* \d* is greedy and must be followed by "-", so group 1 is everything before
\* the first "-" and must be all digits; group 2 is everything after it, up to
\* the end of the input, and must be all digits.
RangeMatch(rangeHeader) ==
    IF Len(rangeHeader) < Len(BytesEq) \/ SubSeq(rangeHeader, 1, Len(BytesEq)) # BytesEq
    THEN Null
    ELSE LET rest == SubSeq(rangeHeader, Len(BytesEq) + 1, Len(rangeHeader))
             dash == IndexOf(rest, "-")
             startStr == SubSeq(rest, 1, dash - 1)
             endStr == SubSeq(rest, dash + 1, Len(rest))
         IN  IF dash = 0 THEN Null
             ELSE IF \E i \in 1..Len(startStr) : ~IsDigit(startStr[i]) THEN Null
             ELSE IF \E i \in 1..Len(endStr) : ~IsDigit(endStr[i]) THEN Null
             ELSE Some([startStr |-> startStr, endStr |-> endStr])

\* (mutant) "start >= end" in place of "start > end": a one-byte range is refused
RangeBoth_StrictEnd(startStr, endStr, fileSize) ==
    LET start == parseInt(startStr)
        end == parseInt(endStr)
    IN  IF isNaN(start) \/ isNaN(end) THEN Null
        ELSE IF start.n >= end.n \/ start.n >= fileSize THEN Null
        ELSE RangeRequest(start.n, Min(end.n, fileSize - 1))

\* Format: bytes=start-end
RangeBoth(startStr, endStr, fileSize) ==
    LET start == parseInt(startStr)
        end == parseInt(endStr)
    IN  IF isNaN(start) \/ isNaN(end) THEN Null
        ELSE IF start.n > end.n \/ start.n >= fileSize THEN Null
        ELSE RangeRequest(start.n, Min(end.n, fileSize - 1))

\* Format: bytes=start-
RangeFrom(startStr, fileSize) ==
    LET start == parseInt(startStr)
    IN  IF isNaN(start) THEN Null
        ELSE IF start.n >= fileSize THEN Null
        ELSE RangeRequest(start.n, fileSize - 1)

\* (mutant) the suffix form without Math.max(0, ...)
RangeSuffix_NoClamp(endStr, fileSize) ==
    LET suffix == parseInt(IF endStr # <<>> THEN endStr ELSE <<"0">>)
    IN  IF isNaN(suffix) THEN Null
        ELSE IF suffix.n <= 0 THEN Null
        ELSE RangeRequest(fileSize - suffix.n, fileSize - 1)

\* Format: bytes=-suffix (last N bytes)
RangeSuffix(endStr, fileSize) ==
    LET suffix == parseInt(IF endStr # <<>> THEN endStr ELSE <<"0">>)
    IN  IF isNaN(suffix) THEN Null
        ELSE IF suffix.n <= 0 THEN Null
        ELSE RangeRequest(Max(0, fileSize - suffix.n), fileSize - 1)

parseRange(rangeHeader, fileSize) ==
    LET match == RangeMatch(rangeHeader)
    IN  IF match.null THEN Null
        ELSE IF match.v.startStr = <<>> /\ match.v.endStr = <<>> THEN Null
        ELSE IF match.v.startStr # <<>> /\ match.v.endStr # <<>>
             THEN RangeBoth(match.v.startStr, match.v.endStr, fileSize)
        ELSE IF match.v.startStr # <<>>
             THEN RangeFrom(match.v.startStr, fileSize)
        ELSE RangeSuffix(match.v.endStr, fileSize)

isSingleRange(rangeHeader) == ~Includes(rangeHeader, ",")

getContentRangeHeader(start, end, total) ==
    <<"b", "y", "t", "e", "s", " ">> \o NumberToString(start) \o <<"-">>
        \o NumberToString(end) \o <<"/">> \o NumberToString(total)

-----------------------------------------------------------------------------
(* lib/cache.ts: ShopDataCache.                                            *)

\* CACHE_TTL when the environment does not set it
DefaultCacheTtl == 300

\* the step by which the model advances Date.now(), in milliseconds
TickMs == 500

\* new ShopDataCache(ttlSeconds)
ShopDataCache(ttlSeconds) == [data |-> Null, timestamp |-> 0, ttlMs |-> ttlSeconds * 1000]

\* (mutant) set() stores nothing
CacheSet_StoresNothing(c, data, t) == c

\* set(data) at clock reading t
CacheSet(c, data, t) == [c EXCEPT !.data = Some(data), !.timestamp = t]

\* now - this.timestamp > this.ttlMs
CacheExpired(c, t) == t - c.timestamp > c.ttlMs

\* what get() returns at clock reading t
CacheGetResult(c, t) ==
    IF c.data.null THEN Null
    ELSE IF CacheExpired(c, t) THEN Null
    ELSE c.data

\* (mutant) get() leaves an expired entry where it is
CacheAfterGet_KeepsStale(c, t) == c

\* the cache after get() at clock reading t
CacheAfterGet(c, t) ==
    IF c.data.null THEN c
    ELSE IF CacheExpired(c, t) THEN [c EXCEPT !.data = Null, !.timestamp = 0]
    ELSE c

\* reset()
CacheReset(c) == [c EXCEPT !.data = Null, !.timestamp = 0]

\* the state of the shop side before anything has happened
InitShopIdle ==
    /\ now = 0
    /\ cache = ShopDataCache(DefaultCacheTtl)
    /\ lastSet = Null
    /\ scan = Null
    /\ served = 0

-----------------------------------------------------------------------------
(* Direct calls of parseRange / getContentRangeHeader, as the unit tests   *)
(* make them.                                                              *)

RangeBodyChars == {"0", "1", "-", " ", "a"}

RangePrefixes ==
    { BytesEq,
      <<"B", "y", "t", "e", "s", "=">>,
      <<"B", "Y", "T", "E", "S", "=">>,
      <<"b", "i", "t", "s", "=">>,
      <<" ">> \o BytesEq,
      <<"b", "y", "t", "e", "s">>,
      BytesEq \o <<"x">> }

\* "bytes=" + a + "-" + b
RangeHeaderOf(a, b) == BytesEq \o NumberToString(a) \o <<"-">> \o NumberToString(b)

RangeHeaders ==
    {p \o b : p \in RangePrefixes, b \in SeqsUpTo(RangeBodyChars, MaxRangeBody)}
    \cup {RangeHeaderOf(a, b) : a \in 0..MaxRangeFileSize, b \in 0..MaxRangeFileSize}

InitIdle ==
    /\ inflight = <<>>
    /\ thrown = Null
    /\ resp = Null
    /\ accessLog = <<>>
    /\ absPath = <<>>
    /\ resolved = Null
    /\ consoleErr = <<>>
    /\ file = Null
    /\ ops = <<>>

InitRange ==
    /\ InitIdle
    /\ InitShopIdle
    /\ req = Null
    /\ virtualPath = <<>>
    /\ BASES = <<>>
    /\ authPair = Null
    /\ pc = "lib"
    /\ \E h \in RangeHeaders, s \in 0..MaxRangeFileSize :
          call = [fn |-> "parseRange", rangeHeader |-> h, fileSize |-> s]
    /\ ret = Null

\* const range = parseRange(h, s); and, for a range, the header built from it
CallParseRange ==
    /\ pc = "lib"
    /\ call.fn = "parseRange"
    /\ ret = Null
    /\ LET range == parseRange(call.rangeHeader, call.fileSize)
       IN  ret' = Some([range |-> range,
                        contentRange |-> IF range.null THEN <<>>
                                         ELSE getContentRangeHeader(range.start, range.end,
                                                                    call.fileSize)])
    /\ UNCHANGED <<cfgVars, inflight, shopVars, call, resolverVars, chainVars, pc, ops>>

NextRange == CallParseRange

SpecRange == InitRange /\ [][NextRange]_vars

-----------------------------------------------------------------------------
(* Properties of the range parser (checked under SpecRange).               *)

AllDigits(s) == \A i \in 1..Len(s) : IsDigit(s[i])

\* the number a string of decimal digits denotes, digit by position
RECURSIVE PositionalValue(_)
PositionalValue(s) ==
    IF s = <<>> THEN 0
    ELSE DigitVal(s[1]) * 10 ^ (Len(s) - 1) + PositionalValue(Tail(s))

\* s is the canonical decimal numeral of n
IsDecimalOf(s, n) ==
    /\ s # <<>>
    /\ AllDigits(s)
    /\ (Len(s) > 1 => s[1] # "0")
    /\ PositionalValue(s) = n

\* s reads "bytes <a>-<b>/<total>"
ReadsAsContentRange(s, a, b, total) ==
    \E i, j \in 1..Len(s) :
        /\ 6 < i /\ i < j
        /\ SubSeq(s, 1, 6) = <<"b", "y", "t", "e", "s", " ">>
        /\ s[i] = "-" /\ s[j] = "/"
        /\ IsDecimalOf(SubSeq(s, 7, i - 1), a)
        /\ IsDecimalOf(SubSeq(s, i + 1, j - 1), b)
        /\ IsDecimalOf(SubSeq(s, j + 1, Len(s)), total)

\* the header is "bytes=" <ds1> "-" <ds2>, ds1 being the k characters after
\* "bytes=" and ds2 all that follows the "-"
Ds1(h, k) == SubSeq(h, 7, 6 + k)
Ds2(h, k) == SubSeq(h, 8 + k, Len(h))

GrammarSplit(h, k) ==
    /\ Len(h) >= 7 + k
    /\ SubSeq(h, 1, 6) = BytesEq
    /\ h[7 + k] = "-"
    /\ AllDigits(Ds1(h, k)) /\ AllDigits(Ds2(h, k))
    /\ (Ds1(h, k) # <<>> \/ Ds2(h, k) # <<>>)

InGrammar(h) == \E k \in 0..Len(h) : GrammarSplit(h, k)

ParseRangeReturned == call.fn = "parseRange" /\ ~ret.null

\* C3: for every size S and 0 <= a <= b < S, parseRange("bytes=a-b", S) is
\* {start: a, end: b} and getContentRangeHeader(a, b, S) reads "bytes a-b/S".
C3_RangeRoundTrip ==
    ParseRangeReturned =>
        \A a, b \in 0..MaxRangeFileSize :
            (a <= b /\ b < call.fileSize /\ call.rangeHeader = RangeHeaderOf(a, b))
            => /\ ret.v.range = RangeRequest(a, b)
               /\ ReadsAsContentRange(ret.v.contentRange, a, b, call.fileSize)

C3_Witness ==
    /\ ParseRangeReturned
    /\ call.rangeHeader = BytesEq \o <<"2", "-", "1", "0">>
    /\ call.fileSize = 11
    /\ ret.v.range = RangeRequest(2, 10)
    /\ ret.v.contentRange = <<"b", "y", "t", "e", "s", " ", "2", "-", "1", "0", "/", "1", "1">>

\* the three forms as the specification words them
C4_Reference(ds1, ds2, S) ==
    LET start == PositionalValue(ds1)
        end == PositionalValue(ds2)
    IN  IF ds1 # <<>> /\ ds2 # <<>>
        THEN IF start <= end /\ start < S
             THEN RangeRequest(start, IF end > S - 1 THEN S - 1 ELSE end) ELSE Null
        ELSE IF ds1 # <<>>
        THEN IF start < S THEN RangeRequest(start, S - 1) ELSE Null
        ELSE IF end >= 1
             THEN RangeRequest(IF S - end > 0 THEN S - end ELSE 0, S - 1) ELSE Null

\* C4: for every size S >= 1 and every header of the accepted grammar,
\* parseRange returns what the three-form reference returns.
C4_ThreeForms ==
    (ParseRangeReturned /\ call.fileSize >= 1) =>
        \A k \in 0..Len(call.rangeHeader) :
            GrammarSplit(call.rangeHeader, k) =>
                ret.v.range = C4_Reference(Ds1(call.rangeHeader, k), Ds2(call.rangeHeader, k),
                                           call.fileSize)

C4_Witness ==
    /\ ParseRangeReturned
    /\ call.rangeHeader = BytesEq \o <<"-", "1", "1">>
    /\ call.fileSize = 5
    /\ ret.v.range = RangeRequest(0, 4)

\* C5: every range parseRange returns, for any header and any size S >= 0,
\* has 0 <= start <= end < S.
C5_RangeWithinFile ==
    (ParseRangeReturned /\ ~ret.v.range.null) =>
        /\ 0 <= ret.v.range.start
        /\ ret.v.range.start <= ret.v.range.end
        /\ ret.v.range.end < call.fileSize

\* C6: for a file of size 0 parseRange returns null whatever the header.
C6_EmptyFileUnsatisfiable ==
    (ParseRangeReturned /\ call.fileSize = 0) => ret.v.range.null

\* C10: parseRange returns null for every header that is not "bytes=",
\* optional digits, one "-", optional digits, with one side non-empty.
C10_MalformedIsNull ==
    (ParseRangeReturned /\ ~InGrammar(call.rangeHeader)) => ret.v.range.null

C10_Witness ==
    /\ ParseRangeReturned
    /\ call.rangeHeader = BytesEq \o <<"0", "-", "1", " ">>
    /\ call.fileSize = 5
    /\ ret.v.range.null

-----------------------------------------------------------------------------
(* config.ts: the alias table.                                             *)

Games == <<"g", "a", "m", "e", "s">>

\* (mutant) the base name without the "games" fallback
BaseName_NoFallback(dir) ==
    LET segs == FilterBoolean(Split(dir, "/"))
    IN  IF segs = <<>> THEN <<>> ELSE segs[Len(segs)]

\* dir.split("/").filter(Boolean).pop() || "games"
BaseName(dir) ==
    LET segs == FilterBoolean(Split(dir, "/"))
    IN  IF segs = <<>> THEN Games ELSE segs[Len(segs)]

\* nameCounts.get(baseName) ?? 0
CountOf(nameCounts, baseName) ==
    IF baseName \in DOMAIN nameCounts THEN nameCounts[baseName] ELSE 0

\* dirs.map(...) from entry i on, nameCounts being the Map built so far
RECURSIVE MapDirs(_, _, _)
MapDirs(dirs, i, nameCounts) ==
    IF i > Len(dirs) THEN <<>>
    ELSE LET baseName == BaseName(dirs[i])
             count == CountOf(nameCounts, baseName)
             counts == [b \in DOMAIN nameCounts \cup {baseName} |->
                           IF b = baseName THEN count + 1 ELSE nameCounts[b]]
             alias == IF count = 0 THEN baseName
                      ELSE baseName \o <<"-">> \o NumberToString(count + 1)
         IN  <<[path |-> dirs[i], alias |-> alias]>> \o MapDirs(dirs, i + 1, counts)

buildBaseAliases(dirs) == MapDirs(dirs, 1, [b \in {} |-> 0])

\* the source directories the model configures
DirPool == { <<"/", "a", "/", "g">>, <<"/", "b", "/", "g">>, <<"/">> }

DirLists == SeqsUpTo(DirPool, MaxDirs)

-----------------------------------------------------------------------------
(* lib/paths.ts: resolveVirtualPath.                                       *)

\* (mutant) the guard without the test for "."
hasPathTraversal_NoDot(parts) ==
    \E i \in 1..Len(parts) :
        parts[i] = <<".", ".">> \/ Len(Trim(parts[i])) = 0

hasPathTraversal(parts) ==
    \E i \in 1..Len(parts) :
        parts[i] = <<".", ".">> \/ parts[i] = <<".">> \/ Len(Trim(parts[i])) = 0

\* (mutant) the first configured directory, whatever its alias
FindBase_First(bases, alias) ==
    IF bases # <<>> THEN Some(bases[1]) ELSE Null

\* BASES.find((b) => b.alias === alias)
FindBase(bases, alias) ==
    IF \E i \in 1..Len(bases) : bases[i].alias = alias
    THEN Some(bases[CHOOSE i \in 1..Len(bases) :
                      bases[i].alias = alias /\ \A j \in 1..(i - 1) : bases[j].alias # alias])
    ELSE Null

PathParts(vp) == FilterBoolean(Split(vp, "/"))

\* resolveVirtualPath up to its first await: the split, the guard, the alias
\* lookup and the call of file.exists()
ResolveSync ==
    /\ pc = "resolve"
    /\ LET parts == PathParts(virtualPath)
           base == FindBase(BASES, parts[1])
       IN  IF Len(parts) = 0 \/ hasPathTraversal(parts)
           THEN /\ consoleErr' = Append(consoleErr, "[PATH] Invalid path - empty or traversal")
                /\ resolved' = Null
                /\ pc' = "resolved"
                /\ UNCHANGED <<absPath, ops>>
           ELSE IF base.null
           THEN /\ consoleErr' = Append(consoleErr, "[PATH] Alias not found")
                /\ resolved' = Null
                /\ pc' = "resolved"
                /\ ops' = Append(ops, "BASES.find")
                /\ UNCHANGED absPath
           ELSE /\ absPath' = base.v.path \o <<"/">> \o Join(Tail(parts), <<"/">>)
                /\ ops' = ops \o <<"BASES.find", "file.exists">>
                /\ pc' = "exists"
                /\ UNCHANGED <<resolved, consoleErr>>
    /\ UNCHANGED <<cfgVars, inflight, shopVars, libVars, virtualPath, chainVars>>

\* await file.exists() completes: the file system answers either way
ResolveExists ==
    /\ pc = "exists"
    /\ \E exists \in BOOLEAN :
          IF exists
          THEN /\ resolved' = Some([absPath |-> absPath])
               /\ UNCHANGED consoleErr
          ELSE /\ resolved' = Null
               /\ consoleErr' = Append(consoleErr, "[PATH] File not found")
    /\ pc' = "resolved"
    /\ UNCHANGED <<cfgVars, inflight, shopVars, libVars, virtualPath, absPath, chainVars, ops>>

(* Direct calls of resolveVirtualPath. *)

PathTokens ==
    { <<"/">>, <<"g">>, <<"g", "-", "2">>, Games, <<"f">>,
      <<".">>, <<".", ".">>, <<" ">>, <<"\t">> }

VirtualPaths == {Flatten(ts) : ts \in SeqsUpTo(PathTokens, MaxPathTokens)}

InitResolve ==
    /\ InitIdle
    /\ InitShopIdle
    /\ req = Null
    /\ \E dirs \in DirLists : BASES = buildBaseAliases(dirs)
    /\ authPair = Null
    /\ call = [fn |-> "resolveVirtualPath"]
    /\ ret = Null
    /\ pc = "resolve"
    /\ \E vp \in VirtualPaths : virtualPath = vp

NextResolve == ResolveSync \/ ResolveExists

SpecResolve == InitResolve /\ [][NextResolve]_vars

-----------------------------------------------------------------------------
(* Properties of the resolver (checked under SpecResolve).                 *)

\* positions i..j of s are one segment: a maximal run without "/"
IsSegment(s, i, j) ==
    /\ i <= j
    /\ i = 1 \/ s[i - 1] = "/"
    /\ j = Len(s) \/ s[j + 1] = "/"
    /\ \A k \in i..j : s[k] # "/"

\* some segment of s is ".", ".." or all whitespace
HasBadSegment(s) ==
    \E i, j \in 1..Len(s) :
        /\ IsSegment(s, i, j)
        /\ \/ SubSeq(s, i, j) = <<".">>
           \/ SubSeq(s, i, j) = <<".", ".">>
           \/ \A k \in i..j : s[k] \in WhiteSpace

\* C1: a virtual path with a segment ".", ".." or all-whitespace resolves to
\* null, whatever the alias table and the file system, and neither the alias
\* table nor the file system has been consulted when it does.
C1_TraversalRejected ==
    (pc \in {"exists", "resolved"} /\ HasBadSegment(virtualPath)) =>
        /\ pc = "resolved"
        /\ resolved.null
        /\ ops = <<>>

C1_Witness ==
    /\ pc = "resolved"
    /\ virtualPath = <<"g", "/", ".", ".">>
    /\ Len(BASES) = 2
    /\ BASES[1].alias = <<"g">>
    /\ resolved.null
    /\ ops = <<>>

-----------------------------------------------------------------------------
(* The request pipeline: errorHandler(compose([authorize, timing,          *)
(* logging], router)), and the /files/ handler.                            *)

FilesPrefix == <<"/", "f", "i", "l", "e", "s", "/">>

BytesWord == <<"b", "y", "t", "e", "s">>
OctetStream == <<"a", "p", "p", "l", "i", "c", "a", "t", "i", "o", "n", "/", "o", "c", "t", "e", "t", "-", "s", "t", "r", "e", "a", "m">>
CacheForever == <<"p", "u", "b", "l", "i", "c", ",", " ", "m", "a", "x", "-", "a", "g", "e", "=", "3", "1", "5", "3", "6", "0", "0", "0">>
BasicRealm == <<"B", "a", "s", "i", "c", " ", "r", "e", "a", "l", "m", "=", "\"", "t", "i", "n", "f", "o", "i", "l", "-", "b", "o", "l", "t", "\"">>
TextPlain == <<"t", "e", "x", "t", "/", "p", "l", "a", "i", "n", ";", " ", "c", "h", "a", "r", "s", "e", "t", "=", "u", "t", "f", "-", "8">>

NoHeaders == [h \in {} |-> <<>>]

TextBody(text) == [kind |-> "text", text |-> text]
FileBody(bytes) == [kind |-> "file", bytes |-> bytes]

Response(status, body, headers) ==
    [null |-> FALSE, status |-> status, body |-> body, headers |-> headers]

ServiceError(statusCode, message) ==
    [null |-> FALSE, name |-> "ServiceError", statusCode |-> statusCode, message |-> message]

URIError == [null |-> FALSE, name |-> "URIError"]

\* String.prototype.startsWith
StartsWith(s, prefix) == Len(s) >= Len(prefix) /\ SubSeq(s, 1, Len(prefix)) = prefix

\* s.replace(pattern, replacement) with a string pattern: the first occurrence
ReplaceFirst(s, pattern, replacement) ==
    LET at == {i \in 1..(Len(s) - Len(pattern) + 1) : SubSeq(s, i, i + Len(pattern) - 1) = pattern}
    IN  IF at = {} THEN s
        ELSE LET i == CHOOSE x \in at : \A y \in at : x <= y
             IN  SubSeq(s, 1, i - 1) \o replacement \o SubSeq(s, i + Len(pattern), Len(s))

HexChars == <<"0", "1", "2", "3", "4", "5", "6", "7", "8", "9", "A", "B", "C", "D", "E", "F">>
HexCharsLower == <<"0", "1", "2", "3", "4", "5", "6", "7", "8", "9", "a", "b", "c", "d", "e", "f">>

IsHex(c) == \E d \in 1..16 : HexChars[d] = c \/ HexCharsLower[d] = c
HexVal(c) == (CHOOSE d \in 1..16 : HexChars[d] = c \/ HexCharsLower[d] = c) - 1

\* the characters of the code points the model's escapes and credentials denote
CharOfCode ==
    (32 :> " ") @@ (37 :> "%") @@ (46 :> ".") @@ (47 :> "/") @@ (58 :> ":")
    @@ (112 :> "p") @@ (113 :> "q") @@ (117 :> "u")

\* decodeURIComponent: Null stands for the URIError it throws on a "%" that
\* does not start a well-formed escape
RECURSIVE decodeURIComponent(_)
decodeURIComponent(s) ==
    IF s = <<>> THEN Some(<<>>)
    ELSE IF s[1] # "%"
    THEN LET rest == decodeURIComponent(Tail(s))
         IN  IF rest.null THEN Null ELSE Some(<<s[1]>> \o rest.v)
    ELSE IF Len(s) < 3 THEN Null
    ELSE IF ~(IsHex(s[2]) /\ IsHex(s[3])) THEN Null
    ELSE LET code == 16 * HexVal(s[2]) + HexVal(s[3])
             rest == decodeURIComponent(SubSeq(s, 4, Len(s)))
         IN  IF code >= 128 \/ rest.null THEN Null
             ELSE Some(<<CharOfCode[code]>> \o rest.v)

UpperChars == <<"A", "B", "C", "D", "E", "F", "G", "H", "I", "J", "K", "L", "M", "N", "O", "P", "Q", "R", "S", "T", "U", "V", "W", "X", "Y", "Z">>
LowerChars == <<"a", "b", "c", "d", "e", "f", "g", "h", "i", "j", "k", "l", "m", "n", "o", "p", "q", "r", "s", "t", "u", "v", "w", "x", "y", "z">>

\* String.prototype.toLowerCase, on ASCII
ToLowerCase(s) ==
    [i \in 1..Len(s) |->
        IF \E k \in 1..26 : UpperChars[k] = s[i]
        THEN LowerChars[CHOOSE k \in 1..26 : UpperChars[k] = s[i]]
        ELSE s[i]]

Base64Chars == UpperChars \o LowerChars \o DigitChars \o <<"+", "/">>

IsBase64(c) == \E k \in 1..64 : Base64Chars[k] = c
Base64Val(c) == (CHOOSE k \in 1..64 : Base64Chars[k] = c) - 1

\* the bytes a sequence of 6-bit values packs
RECURSIVE Base64Bytes(_)
Base64Bytes(v) ==
    IF Len(v) < 2 THEN <<>>
    ELSE LET b1 == v[1] * 4 + (v[2] \div 16)
         IN  IF Len(v) = 2 THEN <<b1>>
             ELSE LET b2 == (v[2] % 16) * 16 + (v[3] \div 4)
                  IN  IF Len(v) = 3 THEN <<b1, b2>>
                      ELSE <<b1, b2, (v[3] % 4) * 64 + v[4]>> \o Base64Bytes(SubSeq(v, 5, Len(v)))

\* Buffer.from(encoded, "base64").toString("utf8"), on ASCII payloads: the
\* digits up to the padding, other characters skipped
Base64Decode(encoded) ==
    LET pad == IndexOf(encoded, "=")
        body == IF pad = 0 THEN encoded ELSE SubSeq(encoded, 1, pad - 1)
        digits == SelectSeq(body, IsBase64)
        bytes == Base64Bytes([i \in 1..Len(digits) |-> Base64Val(digits[i])])
    IN  [i \in 1..Len(bytes) |-> CharOfCode[bytes[i]]]

\* lib/auth.ts parseBasicAuthHeader
parseBasicAuthHeader(header) ==
    IF header.null \/ header.v = <<>> THEN Null
    ELSE LET parts == Split(header.v, " ")
         IN  IF parts[1] = <<>> \/ ToLowerCase(parts[1]) # <<"b", "a", "s", "i", "c">> THEN Null
             ELSE IF Len(parts) < 2 \/ parts[2] = <<>> THEN Null
             ELSE LET decoded == Base64Decode(parts[2])
                      idx == IndexOf(decoded, ":")
                  IN  IF idx = 0 THEN Null
                      ELSE Some([user |-> SubSeq(decoded, 1, idx - 1),
                                 pass |-> SubSeq(decoded, idx + 1, Len(decoded))])

\* (mutant) only the user name is compared
isAuthorized_UserOnly(r, pair) ==
    IF pair.null THEN TRUE
    ELSE LET provided == parseBasicAuthHeader(r.authorization)
         IN  ~provided.null /\ provided.v.user = pair.v.user

\* lib/auth.ts isAuthorized
isAuthorized(r, pair) ==
    IF pair.null THEN TRUE
    ELSE LET provided == parseBasicAuthHeader(r.authorization)
         IN  /\ ~provided.null
             /\ provided.v.user = pair.v.user
             /\ provided.v.pass = pair.v.pass

respondUnauthorized ==
    Response(401, TextBody("Authentication required"),
             ("WWW-Authenticate" :> BasicRealm) @@ ("Content-Type" :> TextPlain))

\* the bytes of a file of the given size, each byte standing for its offset
FileBytes(size) == [i \in 1..size |-> i - 1]

\* Blob.slice(begin, end): negative offsets count from the end, both are
\* clamped to the blob, and the span is empty when end <= begin
Slice(bytes, begin, end) ==
    LET size == Len(bytes)
        from == IF begin < 0 THEN Max(size + begin, 0) ELSE Min(begin, size)
        to == IF end < 0 THEN Max(size + end, 0) ELSE Min(end, size)
    IN  IF to <= from THEN <<>> ELSE SubSeq(bytes, from + 1, to)

\* (mutant) slice without the + 1 on the end
PartialFile_ExclusiveEnd(f, range) == Slice(FileBytes(f.size), range.start, range.end)

\* resolved.file.slice(range.start, range.end + 1)
PartialFile(f, range) == Slice(FileBytes(f.size), range.start, range.end + 1)

\* `bytes */${fileSize}`
UnsatisfiedContentRange(fileSize) == BytesWord \o <<" ", "*", "/">> \o NumberToString(fileSize)

\* (mutant) the multi-range test never rejects
MultiRange_Never(rangeHeader) == FALSE

\* !isSingleRange(rangeHeader)
MultiRange(rangeHeader) == ~isSingleRange(rangeHeader)

\* (mutant) every ServiceError answered as an unexpected error
ServiceErrorResponse_AsUnexpected(error) ==
    Response(500, TextBody("Internal server error"), NoHeaders)

\* errorHandler: the response for a ServiceError
ServiceErrorResponse(error) ==
    IF error.statusCode = 401 THEN respondUnauthorized
    ELSE Response(error.statusCode, TextBody(error.message), NoHeaders)

\* (mutant) every entry is logged as a success
LogEntry_AlwaysOk(r, status) == [method |-> r.method, pathname |-> r.pathname, status |-> 200]

\* logRequest(LOG_FORMAT, req.method, url.pathname, status, ...)
LogEntry(r, status) == [method |-> r.method, pathname |-> r.pathname, status |-> status]

\* errorHandler enters its try block and calls the composed chain
ErrorHandlerTry ==
    /\ pc = "start"
    /\ pc' = "authorize"
    /\ UNCHANGED <<cfgVars, inflight, shopVars, libVars, resolverVars, chainVars, ops>>

\* authorize: throws 401 or calls next
Authorize ==
    /\ pc = "authorize"
    /\ IF isAuthorized(req, authPair)
       THEN /\ pc' = "timing"
            /\ UNCHANGED thrown
       ELSE /\ thrown' = ServiceError(401, "Unauthorized")
            /\ pc' = "catch"
    /\ UNCHANGED <<cfgVars, inflight, shopVars, libVars, resolverVars, req, resp, accessLog, file, ops>>

\* timing: calls next (and hands the response back unchanged)
Timing ==
    /\ pc = "timing"
    /\ pc' = "logging"
    /\ UNCHANGED <<cfgVars, inflight, shopVars, libVars, resolverVars, chainVars, ops>>

\* logging: calls next first
LoggingBefore ==
    /\ pc = "logging"
    /\ pc' = "router"
    /\ UNCHANGED <<cfgVars, inflight, shopVars, libVars, resolverVars, chainVars, ops>>

IndexPaths == { <<"/">>, <<"/", "t", "i", "n", "f", "o", "i", "l">> }
ShopPaths == { <<"/", "s", "h", "o", "p", ".", "j", "s", "o", "n">>, <<"/", "s", "h", "o", "p", ".", "t", "f", "l">> }

\* router: dispatch on url.pathname
Router ==
    /\ pc = "router"
    /\ IF req.pathname \in IndexPaths
       THEN pc' = "index" /\ UNCHANGED resp
       ELSE IF req.pathname \in ShopPaths
       THEN pc' = "shop" /\ UNCHANGED resp
       ELSE IF StartsWith(req.pathname, FilesPrefix)
       THEN pc' = "files" /\ UNCHANGED resp
       ELSE /\ resp' = Response(200, TextBody("* tinfoil-bolt is active."), NoHeaders)
            /\ pc' = "loggingAfter"
    /\ UNCHANGED <<cfgVars, inflight, shopVars, libVars, resolverVars, req, thrown, accessLog, file, ops>>

\* filesHandler up to the call of resolveVirtualPath
FilesDecode ==
    /\ pc = "files"
    /\ LET decodedPath == decodeURIComponent(req.pathname)
       IN  IF decodedPath.null
           THEN /\ thrown' = URIError
                /\ pc' = "catch"
                /\ UNCHANGED virtualPath
           ELSE /\ virtualPath' = ReplaceFirst(decodedPath.v, FilesPrefix, <<>>)
                /\ pc' = "resolve"
                /\ UNCHANGED thrown
    /\ UNCHANGED <<cfgVars, inflight, shopVars, libVars, absPath, resolved, consoleErr, req, resp, accessLog, file, ops>>

\* filesHandler after resolveVirtualPath has returned
FilesRespond ==
    /\ pc = "resolved"
    /\ ~req.null
    /\ IF resolved.null
       THEN /\ thrown' = ServiceError(404, "File not found")
            /\ pc' = "catch"
            /\ UNCHANGED <<resp, file, ops>>
       ELSE \E fileSize \in 0..MaxFileSize :
            LET f == [null |-> FALSE, size |-> fileSize]
                rangeHeader == req.range
                range == parseRange(rangeHeader.v, fileSize)
            IN  /\ file' = f
                /\ pc' = "loggingAfter"
                /\ UNCHANGED thrown
                /\ IF rangeHeader.null \/ rangeHeader.v = <<>>
                   THEN /\ resp' = Response(200, FileBody(FileBytes(fileSize)),
                                       ("Content-Type" :> OctetStream)
                                    @@ ("Content-Length" :> NumberToString(fileSize))
                                    @@ ("Accept-Ranges" :> BytesWord)
                                    @@ ("Cache-Control" :> CacheForever))
                        /\ UNCHANGED ops
                   ELSE IF MultiRange(rangeHeader.v)
                   THEN /\ resp' = Response(416, TextBody("Multiple ranges not supported"),
                                       "Content-Range" :> UnsatisfiedContentRange(fileSize))
                        /\ ops' = Append(ops, "isSingleRange")
                   ELSE IF range.null
                   THEN /\ resp' = Response(416, TextBody("Range request invalid"),
                                       "Content-Range" :> UnsatisfiedContentRange(fileSize))
                        /\ ops' = ops \o <<"isSingleRange", "parseRange">>
                   ELSE /\ resp' = Response(206, FileBody(PartialFile(f, range)),
                                       ("Content-Type" :> OctetStream)
                                    @@ ("Content-Length" :> NumberToString(range.end - range.start + 1))
                                    @@ ("Content-Range" :>
                                           getContentRangeHeader(range.start, range.end, fileSize))
                                    @@ ("Accept-Ranges" :> BytesWord)
                                    @@ ("Cache-Control" :> CacheForever))
                        /\ ops' = ops \o <<"isSingleRange", "parseRange">>
    /\ UNCHANGED <<cfgVars, inflight, shopVars, libVars, resolverVars, req, accessLog>>

\* logging, after next has returned: one entry with the response's status;
\* timing, authorize and errorHandler then hand the response back as it is
LoggingAfter ==
    /\ pc = "loggingAfter"
    /\ accessLog' = Append(accessLog, LogEntry(req, resp.status))
    /\ pc' = "done"
    /\ UNCHANGED <<cfgVars, inflight, shopVars, libVars, resolverVars, req, thrown, resp, file, ops>>

\* errorHandler's catch block
ErrorHandlerCatch ==
    /\ pc = "catch"
    /\ IF thrown.name = "ServiceError"
       THEN /\ accessLog' = Append(accessLog, LogEntry(req, thrown.statusCode))
            /\ resp' = ServiceErrorResponse(thrown)
       ELSE /\ accessLog' = Append(accessLog, LogEntry(req, 500))
            /\ resp' = Response(500, TextBody("Internal server error"), NoHeaders)
    /\ thrown' = Null
    /\ pc' = "done"
    /\ UNCHANGED <<cfgVars, inflight, shopVars, libVars, resolverVars, req, file, ops>>

(* GET requests for /files/ paths, without credentials configured. *)

UrlTokens ==
    { <<"g", "/">>, <<"x", "/">>, <<"f">>, <<"%", "2", "F">>, <<".", ".">>, <<"%", "2", "0">> }

\* new URL(req.url).pathname has no "." or ".." segment left
IsNormalizedPathname(p) ==
    \A i \in 1..Len(Split(p, "/")) :
        Split(p, "/")[i] # <<".">> /\ Split(p, "/")[i] # <<".", ".">>

FilesPathnames ==
    {p \in {FilesPrefix \o Flatten(ts) : ts \in SeqsUpTo(UrlTokens, MaxUrlTokens)} :
        IsNormalizedPathname(p)}
    \cup { FilesPrefix \o <<"g", "-", "2", "/", "f">>,
           FilesPrefix \o <<"g", "%", "2", "F", ".", ".">>,
           FilesPrefix \o <<"g", "/", "f", "%">>,
           FilesPrefix \o <<"g", "/", "%", "2", "e", "f">>,
           <<"/", "f", "i", "l", "e", "s">> }

ReqRangeChars == {"0", "1", "-", ","}

ReqRanges ==
    {Null, Some(<<>>)}
    \cup {Some(BytesEq \o b) : b \in SeqsUpTo(ReqRangeChars, MaxReqRangeBody)}
    \cup { Some(BytesEq \o <<"0", "-", ",", "1", "-">>),
           Some(BytesEq \o <<"0", "-", "0", ",", "-", "1">>),
           Some(<<"b", "i", "t", "s", "=", "0", "-", "1">>),
           Some(BytesEq \o <<"9", "-">>) }

InitFiles ==
    /\ InitIdle
    /\ InitShopIdle
    /\ virtualPath = <<>>
    /\ BASES = buildBaseAliases(<< <<"/", "a", "/", "g">>, <<"/", "b", "/", "g">> >>)
    /\ authPair = Null
    /\ call = [fn |-> "fetch"]
    /\ ret = Null
    /\ pc = "start"
    /\ \E p \in FilesPathnames, r \in ReqRanges :
          req = [null |-> FALSE, method |-> "GET", pathname |-> p, range |-> r, authorization |-> Null]

NextFiles ==
    \/ ErrorHandlerTry
    \/ Authorize
    \/ Timing
    \/ LoggingBefore
    \/ Router
    \/ FilesDecode
    \/ ResolveSync
    \/ ResolveExists
    \/ FilesRespond
    \/ LoggingAfter
    \/ ErrorHandlerCatch

SpecFiles == InitFiles /\ [][NextFiles]_vars

-----------------------------------------------------------------------------
(* Properties of /files/ requests (checked under SpecFiles).               *)

\* the request went through filesHandler to the end and got a file
Served == pc \in {"loggingAfter", "done"} /\ ~resolved.null /\ ~file.null

\* s is the decimal rendering of the integer n
IsNumeralOf(s, n) ==
    IF n < 0 THEN Len(s) > 1 /\ s[1] = "-" /\ IsDecimalOf(Tail(s), 0 - n)
    ELSE IsDecimalOf(s, n)

\* s reads "bytes */<S>"
ReadsAsUnsatisfied(s, S) ==
    /\ Len(s) > 8
    /\ SubSeq(s, 1, 8) = <<"b", "y", "t", "e", "s", " ", "*", "/">>
    /\ IsDecimalOf(SubSeq(s, 9, Len(s)), S)

\* s reads "bytes <a>-<b>/<S>"
ReadsAsSpan(s, a, b, S) ==
    \E i, j \in 1..Len(s) :
        /\ 6 < i /\ i < j
        /\ SubSeq(s, 1, 6) = <<"b", "y", "t", "e", "s", " ">>
        /\ s[i] = "-" /\ s[j] = "/"
        /\ IsNumeralOf(SubSeq(s, 7, i - 1), a)
        /\ IsNumeralOf(SubSeq(s, i + 1, j - 1), b)
        /\ IsNumeralOf(SubSeq(s, j + 1, Len(s)), S)

HasHeader(r, name) == name \in DOMAIN r.headers

Is416(r, S) ==
    /\ r.status = 416
    /\ HasHeader(r, "Content-Range")
    /\ ReadsAsUnsatisfied(r.headers["Content-Range"], S)

ResolverFailures ==
    { "[PATH] Invalid path - empty or traversal", "[PATH] Alias not found",
      "[PATH] File not found" }

\* C2: whichever way the resolver fails (empty path, traversal segment,
\* unknown alias, file missing), and whatever the Range header, the response
\* is one and the same: 404, body "File not found", no headers.
C2_UniformNotFound ==
    \A failure \in ResolverFailures :
        (pc = "done" /\ consoleErr = <<failure>>) =>
            /\ resolved.null
            /\ resp = [null |-> FALSE, status |-> 404,
                       body |-> [kind |-> "text", text |-> "File not found"],
                       headers |-> NoHeaders]

C2_Witness ==
    /\ pc = "done"
    /\ consoleErr = <<"[PATH] File not found">>
    /\ req.range = Some(BytesEq \o <<"0", "-", ",", "1", "-">>)
    /\ resp.status = 404
    /\ resp.body.text = "File not found"

SatisfiableSingleRange(h, S) ==
    /\ S >= 1
    /\ \E k \in 0..Len(h) :
          /\ GrammarSplit(h, k)
          /\ ~C4_Reference(Ds1(h, k), Ds2(h, k), S).null

\* C8: for a file of size S that resolves, a Range header that is present
\* but is not a satisfiable single range (malformed, out of bounds, start
\* after end, several ranges, empty) gets 416 with Content-Range "bytes */S".
C8_UnsatisfiableIs416 ==
    (Served /\ ~req.range.null /\ ~SatisfiableSingleRange(req.range.v, file.size)) =>
        Is416(resp, file.size)

\* the inclusive span of offsets a..b
Span(a, b) == [i \in 1..(b - a + 1) |-> a + i - 1]

\* C9: for a file of size S that resolves: without a Range header the
\* response is 200 with Accept-Ranges: bytes, Content-Length S and the whole
\* file; with a Range header that parseRange turns into {start, end} it is
\* 206 with Content-Range "bytes start-end/S", Content-Length end - start + 1,
\* Accept-Ranges: bytes, and exactly the bytes start..end as body.
C9_FullOrPartial ==
    Served =>
        /\ req.range.null =>
              /\ resp.status = 200
              /\ HasHeader(resp, "Accept-Ranges") /\ HasHeader(resp, "Content-Length")
              /\ resp.headers["Accept-Ranges"] = <<"b", "y", "t", "e", "s">>
              /\ IsDecimalOf(resp.headers["Content-Length"], file.size)
              /\ resp.body = [kind |-> "file", bytes |-> Span(0, file.size - 1)]
        /\ (~req.range.null /\ ~parseRange(req.range.v, file.size).null) =>
              LET r == parseRange(req.range.v, file.size)
              IN  /\ resp.status = 206
                  /\ HasHeader(resp, "Accept-Ranges") /\ HasHeader(resp, "Content-Length")
                  /\ HasHeader(resp, "Content-Range")
                  /\ ReadsAsSpan(resp.headers["Content-Range"], r.start, r.end, file.size)
                  /\ IsDecimalOf(resp.headers["Content-Length"], r.end - r.start + 1)
                  /\ resp.headers["Accept-Ranges"] = <<"b", "y", "t", "e", "s">>
                  /\ resp.body = [kind |-> "file", bytes |-> Span(r.start, r.end)]

C9_Witness ==
    /\ pc = "done"
    /\ Served
    /\ req.range = Some(BytesEq \o <<"1", "-", "1">>)
    /\ file.size = 3
    /\ resp.status = 206
    /\ resp.headers["Content-Range"] = <<"b", "y", "t", "e", "s", " ", "1", "-", "1", "/", "3">>
    /\ resp.headers["Content-Length"] = <<"1">>
    /\ resp.body.bytes = <<1>>

-----------------------------------------------------------------------------
(* Direct calls of buildBaseAliases.                                       *)

AliasDirPool ==
    { <<"/", "a", "/", "g">>, <<"/", "b", "/", "g", "/">>, <<"/", "c", "/", "g", "-", "2">>,
      <<"/">>, <<"/">> \o Games }

InitAliases ==
    /\ InitIdle
    /\ InitShopIdle
    /\ req = Null
    /\ virtualPath = <<>>
    /\ BASES = <<>>
    /\ authPair = Null
    /\ pc = "lib"
    /\ \E dirs \in SeqsUpTo(AliasDirPool, MaxAliasDirs) :
          call = [fn |-> "buildBaseAliases", dirs |-> dirs]
    /\ ret = Null

\* const result = buildBaseAliases(dirs)
CallBuildBaseAliases ==
    /\ pc = "lib"
    /\ call.fn = "buildBaseAliases"
    /\ ret = Null
    /\ ret' = Some(buildBaseAliases(call.dirs))
    /\ UNCHANGED <<cfgVars, inflight, shopVars, call, resolverVars, chainVars, pc, ops>>

NextAliases == CallBuildBaseAliases

SpecAliases == InitAliases /\ [][NextAliases]_vars

(* Properties of the alias builder (checked under SpecAliases). *)

BuildBaseAliasesReturned == call.fn = "buildBaseAliases" /\ ~ret.null

\* C11: the aliases buildBaseAliases returns for a list of directories are
\* pairwise distinct.
C11_AliasesDistinct ==
    BuildBaseAliasesReturned =>
        \A i, j \in 1..Len(ret.v) : i # j => ret.v[i].alias # ret.v[j].alias

\* the last non-empty segment of a path, "games" when it has none
RefBaseName(dir) ==
    IF \E i, j \in 1..Len(dir) : IsSegment(dir, i, j)
    THEN LET last == CHOOSE ij \in (1..Len(dir)) \X (1..Len(dir)) :
                        /\ IsSegment(dir, ij[1], ij[2])
                        /\ \A k \in (ij[2] + 1)..Len(dir) : dir[k] = "/"
         IN  SubSeq(dir, last[1], last[2])
    ELSE <<"g", "a", "m", "e", "s">>

\* how many of the first k paths have the basename of the k-th
Occurrence(dirs, k) ==
    Cardinality({i \in 1..k : RefBaseName(dirs[i]) = RefBaseName(dirs[k])})

\* C12: one entry per input path, in order, path unchanged; the alias of the
\* k-th is its basename when no earlier path shares it and "basename-N"
\* otherwise, N counting the paths up to the k-th with that basename; a path
\* without segments has the basename "games"; no paths give no entries.
C12_AliasRule ==
    BuildBaseAliasesReturned =>
        /\ Len(ret.v) = Len(call.dirs)
        /\ \A k \in 1..Len(call.dirs) :
              LET b == RefBaseName(call.dirs[k])
                  n == Occurrence(call.dirs, k)
                  alias == ret.v[k].alias
              IN  /\ ret.v[k].path = call.dirs[k]
                  /\ n = 1 => alias = b
                  /\ n > 1 => /\ Len(alias) > Len(b) + 1
                              /\ SubSeq(alias, 1, Len(b)) = b
                              /\ alias[Len(b) + 1] = "-"
                              /\ IsDecimalOf(SubSeq(alias, Len(b) + 2, Len(alias)), n)

C12_Witness ==
    /\ BuildBaseAliasesReturned
    /\ call.dirs = << <<"/", "a", "/", "g">>, <<"/">>, <<"/", "b", "/", "g", "/">> >>
    /\ ret.v[1] = [path |-> <<"/", "a", "/", "g">>, alias |-> <<"g">>]
    /\ ret.v[2] = [path |-> <<"/">>, alias |-> <<"g", "a", "m", "e", "s">>]
    /\ ret.v[3] = [path |-> <<"/", "b", "/", "g", "/">>, alias |-> <<"g", "-", "2">>]

-----------------------------------------------------------------------------
(* Malformed percent-escapes in /files/ paths (checked under SpecFiles).   *)

\* some "%" of s is not followed by two hexadecimal digits
HasMalformedEscape(s) ==
    \E i \in 1..Len(s) :
        /\ s[i] = "%"
        /\ \/ i + 2 > Len(s)
           \/ ~(IsHex(s[i + 1]) /\ IsHex(s[i + 2]))

\* C20: a /files/ request whose path has a malformed percent-escape ends as
\* a ServiceError with status 400 or 404, never as another exception and
\* never as a 500.
C20_MalformedEscapeNotFound ==
    (~req.null /\ StartsWith(req.pathname, FilesPrefix) /\ HasMalformedEscape(req.pathname)) =>
        /\ (~thrown.null => thrown.name = "ServiceError" /\ thrown.statusCode \in {400, 404})
        /\ (pc = "done" => resp.status \in {400, 404})

-----------------------------------------------------------------------------
(* Direct use of a ShopDataCache, with the clock advancing.                *)

ListingA == [files |-> <<>>, directories |-> <<>>]
ListingB == [files |-> <<[url |-> <<"g", "/", "f">>, size |-> 1]>>, directories |-> << <<"g">> >>]

Listings == {ListingA, ListingB}

InitCache ==
    /\ InitIdle
    /\ req = Null
    /\ virtualPath = <<>>
    /\ BASES = <<>>
    /\ authPair = Null
    /\ pc = "cache"
    /\ call = [fn |-> "new ShopDataCache"]
    /\ ret = Null
    /\ now = 0
    /\ \E ttlSeconds \in 0..MaxTtl : cache = ShopDataCache(ttlSeconds)
    /\ lastSet = Null
    /\ scan = Null
    /\ served = 0

\* cache.set(data)
CallCacheSet ==
    /\ pc = "cache"
    /\ \E data \in Listings :
          /\ cache' = CacheSet(cache, data, now)
          /\ lastSet' = Some([at |-> now, data |-> data])
    /\ call' = [fn |-> "cache.set", at |-> now]
    /\ ret' = Null
    /\ UNCHANGED <<cfgVars, inflight, resolverVars, chainVars, now, scan, served, pc, ops>>

\* cache.get()
CallCacheGet ==
    /\ pc = "cache"
    /\ call' = [fn |-> "cache.get", at |-> now]
    /\ ret' = Some(CacheGetResult(cache, now))
    /\ cache' = CacheAfterGet(cache, now)
    /\ UNCHANGED <<cfgVars, inflight, resolverVars, chainVars, now, lastSet, scan, served, pc, ops>>

\* cache.reset()
CallCacheReset ==
    /\ pc = "cache"
    /\ cache' = CacheReset(cache)
    /\ lastSet' = Null
    /\ call' = [fn |-> "cache.reset", at |-> now]
    /\ ret' = Null
    /\ UNCHANGED <<cfgVars, inflight, resolverVars, chainVars, now, scan, served, pc, ops>>

\* time passes; the clock is read by cache.get() and cache.set() only, so
\* it is advanced between cache calls, between requests and during a scan
Tick ==
    /\ pc \in {"cache", "idle", "done", "scanning"}
    /\ now < MaxTicks * TickMs
    /\ now' = now + TickMs
    /\ UNCHANGED <<cfgVars, inflight, libVars, resolverVars, chainVars, cache, lastSet, scan, served, pc, ops>>

\* Date.now() is the wall clock: it can be set back between two cache calls
ClockSetBack ==
    /\ pc = "cache"
    /\ \E k \in 0..MaxTicks : k * TickMs < now /\ now' = k * TickMs
    /\ UNCHANGED <<cfgVars, inflight, libVars, resolverVars, chainVars, cache, lastSet, scan, served, pc, ops>>

NextCache == CallCacheSet \/ CallCacheGet \/ CallCacheReset \/ Tick \/ ClockSetBack

SpecCache == InitCache /\ [][NextCache]_vars

(* Properties of the cache (checked under SpecCache). *)

\* get() has just returned, a set() before it not undone by a reset()
GetAfterSet == call.fn = "cache.get" /\ ~ret.null /\ ~lastSet.null

\* C13: with ttl > 0 and a listing set at t, get() at t' returns the listing
\* when t' < t + ttl and misses when t' >= t + ttl, the boundary included.
C13_TtlBoundary ==
    (GetAfterSet /\ cache.ttlMs > 0) =>
        IF call.at < lastSet.v.at + cache.ttlMs
        THEN ret.v = Some(lastSet.v.data)
        ELSE ret.v = Null

\* C14: with ttl = 0 every get() misses, also right after a set() at the
\* same clock reading.
C14_ZeroTtlAlwaysMisses ==
    (call.fn = "cache.get" /\ ~ret.null /\ cache.ttlMs = 0) => ret.v = Null

-----------------------------------------------------------------------------
(* lib/paths.ts encodePath, services/shop.ts buildShopData, and the index  *)
(* and shop route handlers.                                                *)

IsUnreserved(c) ==
    \/ \E k \in 1..26 : UpperChars[k] = c \/ LowerChars[k] = c
    \/ IsDigit(c)
    \/ c \in {"-", "_", ".", "!", "~", "*", "'", "(", ")"}

CodeOfChar(c) == CHOOSE code \in DOMAIN CharOfCode : CharOfCode[code] = c

\* encodeURIComponent, on ASCII
RECURSIVE encodeURIComponent(_)
encodeURIComponent(s) ==
    IF s = <<>> THEN <<>>
    ELSE (IF IsUnreserved(s[1]) THEN <<s[1]>>
          ELSE <<"%", HexChars[(CodeOfChar(s[1]) \div 16) + 1],
                      HexChars[(CodeOfChar(s[1]) % 16) + 1]>>)
         \o encodeURIComponent(Tail(s))

encodePath(path) ==
    LET segs == FilterBoolean(Split(path, "/"))
    IN  Join([i \in 1..Len(segs) |-> encodeURIComponent(segs[i])], <<"/">>)

\* what glob.scan finds under each configured directory, with the sizes
ScanTree ==
    << <<[file |-> <<"f">>, size |-> 1]>>,
       <<[file |-> <<"d", "/", "f", " ", "f">>, size |-> 2]>> >>

\* Bun.file(absPath).size
SizeOnDisk(bases, p) ==
    LET hits == {de \in {x \in (1..Len(bases)) \X (1..2) : x[2] <= Len(ScanTree[x[1]])} :
                    bases[de[1]].path \o <<"/">> \o ScanTree[de[1]][de[2]].file = p}
    IN  ScanTree[(CHOOSE de \in hits : TRUE)[1]][(CHOOSE de \in hits : TRUE)[2]].size

\* String.prototype.lastIndexOf, 0 when absent
LastIndexOf(s, c) ==
    IF Includes(s, c) THEN CHOOSE i \in 1..Len(s) : s[i] = c /\ \A j \in (i + 1)..Len(s) : s[j] # c
    ELSE 0

\* directories.add(d): a Set keeps insertion order and no duplicates
SetAdd(set, d) == IF \E i \in 1..Len(set) : set[i] = d THEN set ELSE Append(set, d)

\* the identifier fileCount is declared nowhere in services/shop.ts
FileCountDeclared == FALSE

\* buildShopData: its locals and one task per configured directory
NewScan(bases) ==
    [null |-> FALSE,
     tasks |-> [d \in 1..Len(bases) |-> [state |-> "scanning", next |-> 1, error |-> "none"]],
     fileEntries |-> <<>>,
     directories |-> <<>>]

\* (mutant) the build goes on once every task has ended, failed or not
PromiseAll_Settled(tasks) ==
    IF \A d \in 1..Len(tasks) : tasks[d].state # "scanning" THEN "fulfilled" ELSE "pending"

\* Promise.all over the tasks
PromiseAll(tasks) ==
    IF \E d \in 1..Len(tasks) : tasks[d].state = "rejected" THEN "rejected"
    ELSE IF \A d \in 1..Len(tasks) : tasks[d].state = "fulfilled" THEN "fulfilled"
    ELSE "pending"

\* the ShopData assembled from the locals
ShopDataOf(bases, sc) ==
    LET DotDotFiles == <<".", ".", "/", "f", "i", "l", "e", "s", "/">> IN
    [files |-> [i \in 1..Len(sc.fileEntries) |->
                   [url |-> DotDotFiles \o encodePath(sc.fileEntries[i].virtualPath),
                    size |-> SizeOnDisk(bases, sc.fileEntries[i].absPath)]],
     directories |-> [i \in 1..Len(sc.directories) |->
                         DotDotFiles \o encodePath(sc.directories[i])]]

\* a response body that is JSON.stringify(value)
JsonBody(value) == [kind |-> "json", json |-> value]

ApplicationJson == <<"a", "p", "p", "l", "i", "c", "a", "t", "i", "o", "n", "/", "j", "s", "o", "n">>
TextHtml == <<"t", "e", "x", "t", "/", "h", "t", "m", "l">>

EndsWith(s, suffix) ==
    Len(s) >= Len(suffix) /\ SubSeq(s, Len(s) - Len(suffix) + 1, Len(s)) = suffix

\* String.prototype.includes with a string argument
IncludesString(s, sub) ==
    \E i \in 1..(Len(s) - Len(sub) + 1) : SubSeq(s, i, i + Len(sub) - 1) = sub

\* routes/utils.ts buildIndexPayload, no SUCCESS_MESSAGE configured
buildIndexPayload ==
    [files |-> <<[url |-> <<"s", "h", "o", "p", ".", "j", "s", "o", "n">>, size |-> 0], [url |-> <<"s", "h", "o", "p", ".", "t", "f", "l">>, size |-> 0]>>,
     directories |-> <<>>]

ShopResponse(r, shopData) ==
    Response(200, JsonBody(shopData),
             "Content-Type" :> (IF EndsWith(r.pathname, <<".", "t", "f", "l">>) THEN OctetStream ELSE ApplicationJson))

\* indexHandler up to its await (or to its end, for a client that is not a
\* browser)
IndexHandler ==
    /\ pc = "index"
    /\ LET accept == IF req.accept.null THEN <<>> ELSE req.accept.v
           isBrowser == IncludesString(accept, TextHtml)
       IN  IF isBrowser
           THEN /\ pc' = "indexExists"
                /\ ops' = Append(ops, "indexHandler")
                /\ UNCHANGED resp
           ELSE /\ resp' = Response(200, JsonBody(buildIndexPayload), "Content-Type" :> ApplicationJson)
                /\ ops' = Append(ops, "indexHandler")
                /\ pc' = "loggingAfter"
    /\ UNCHANGED <<cfgVars, inflight, shopVars, libVars, resolverVars, req, thrown, accessLog, file>>

\* indexHandler after await INDEX_HTML.exists()
IndexExists ==
    /\ pc = "indexExists"
    /\ \E exists \in BOOLEAN :
          IF exists
          THEN /\ resp' = Response(200, [kind |-> "html"], "Content-Type" :> (TextHtml \o <<";", " ", "c", "h", "a", "r", "s", "e", "t", "=", "u", "t", "f", "-", "8">>))
               /\ pc' = "loggingAfter"
               /\ UNCHANGED thrown
          ELSE /\ thrown' = ServiceError(500, "Index page missing")
               /\ pc' = "catch"
               /\ UNCHANGED resp
    /\ UNCHANGED <<cfgVars, inflight, shopVars, libVars, resolverVars, req, accessLog, file, ops>>

\* shopHandler up to await buildShopData() (or to its end, on a cache hit)
ShopHandler ==
    /\ pc = "shop"
    /\ cache' = CacheAfterGet(cache, now)
    /\ LET shopData == CacheGetResult(cache, now)
       IN  IF shopData.null
           THEN /\ scan' = NewScan(BASES)
                /\ ops' = ops \o <<"shopHandler", "cache.get", "buildShopData">>
                /\ pc' = "scanning"
                /\ UNCHANGED resp
           ELSE /\ resp' = ShopResponse(req, shopData.v)
                /\ ops' = ops \o <<"shopHandler", "cache.get">>
                /\ pc' = "loggingAfter"
                /\ UNCHANGED scan
    /\ UNCHANGED <<cfgVars, inflight, libVars, resolverVars, req, thrown, accessLog, file, now, lastSet, served>>

\* one turn of the task scanning directory d, on the locals sc of its
\* buildShopData call: the next file of the glob, the end of the loop and the
\* log line after it, or (~ok) an I/O error
ScanTurn(bases, sc, d, ok) ==
    LET task == sc.tasks[d]
        alias == bases[d].alias
        dir == bases[d].path
    IN  IF ~ok
        THEN [sc EXCEPT !.tasks[d].state = "rejected", !.tasks[d].error = "io"]
        ELSE IF task.next <= Len(ScanTree[d])
        THEN LET f == ScanTree[d][task.next].file
                 dirName == IF Includes(f, "/") THEN SubSeq(f, 1, LastIndexOf(f, "/") - 1)
                            ELSE <<>>
             IN  [sc EXCEPT
                     !.tasks[d].next = task.next + 1,
                     !.fileEntries = Append(@, [virtualPath |-> alias \o <<"/">> \o f,
                                                absPath |-> dir \o <<"/">> \o f]),
                     !.directories = SetAdd(@, IF Len(dirName) > 0
                                               THEN alias \o <<"/">> \o dirName
                                               ELSE alias)]
        ELSE IF FileCountDeclared
        THEN [sc EXCEPT !.tasks[d].state = "fulfilled"]
        ELSE [sc EXCEPT !.tasks[d].state = "rejected", !.tasks[d].error = "ReferenceError"]

\* the request's build: a task that has not ended takes its turn
ScanTask(d) ==
    /\ pc = "scanning"
    /\ d \in 1..Len(scan.tasks)
    /\ scan.tasks[d].state = "scanning"
    /\ \E ok \in BOOLEAN : scan' = ScanTurn(BASES, scan, d, ok)
    /\ UNCHANGED <<cfgVars, inflight, libVars, resolverVars, chainVars, now, cache, lastSet, served, pc, ops>>

\* shopHandler after await buildShopData(): the listing is assembled, stored
\* and sent, or the catch block turns the failure into a ServiceError
ShopAwait ==
    /\ pc = "scanning"
    /\ PromiseAll(scan.tasks) # "pending"
    /\ IF PromiseAll(scan.tasks) = "rejected"
       THEN /\ thrown' = ServiceError(500, "Error scanning libraries")
            /\ pc' = "catch"
            /\ UNCHANGED <<resp, cache, lastSet, ops>>
       ELSE LET shopData == ShopDataOf(BASES, scan)
            IN  /\ cache' = CacheSet(cache, shopData, now)
                /\ lastSet' = Some([at |-> now, data |-> shopData])
                /\ resp' = ShopResponse(req, shopData)
                /\ ops' = Append(ops, "cache.set")
                /\ pc' = "loggingAfter"
                /\ UNCHANGED thrown
    /\ UNCHANGED <<cfgVars, inflight, libVars, resolverVars, req, accessLog, file, now, scan, served>>

(* The server: requests of every route and method, one after the other. *)

ServerPathnames ==
    IndexPaths \cup ShopPaths
    \cup { FilesPrefix \o <<"g", "/", "f">>, FilesPrefix \o <<"g", "/", "f", "%">>,
           <<"/", "f", "i", "l", "e", "s">> }

Methods == {"GET", "HEAD", "OPTIONS", "POST"}

AuthorizationHeaders ==
    LET BasicSp == <<"B", "a", "s", "i", "c", " ">> IN
    { Null,
      Some(BasicSp \o <<"d", "T", "p", "w">>),
      Some(<<"b", "a", "s", "i", "c", " ", "d", "T", "p", "w">>),
      Some(BasicSp \o <<"d", "T", "p", "x">>),
      Some(BasicSp \o <<"d", "X", "A", "=">>),
      Some(<<"B", "e", "a", "r", "e", "r", " ", "d", "T", "p", "w">>) }

\* the Accept header matters to the index routes only
ServerRequests ==
    {r \in [null : {FALSE}, method : Methods, pathname : ServerPathnames, range : {Null},
            authorization : AuthorizationHeaders, accept : {Null, Some(TextHtml)}] :
        r.accept.null \/ r.pathname \in IndexPaths}

\* GAMES_DIRS as "," (no directory is left after the filter) or as "/a/g,/b/g"
ServerDirLists == { <<>>, << <<"/", "a", "/", "g">>, <<"/", "b", "/", "g">> >> }

\* CACHE_TTL is 0 or a time the clock of the model can outrun
InitServer ==
    /\ InitIdle
    /\ req = Null
    /\ virtualPath = <<>>
    /\ BASES \in { buildBaseAliases(dirs) : dirs \in ServerDirLists }
    /\ authPair \in {Null, Some([user |-> <<"u">>, pass |-> <<"p">>])}
    /\ call = [fn |-> "fetch"]
    /\ ret = Null
    /\ pc = "idle"
    /\ now = 0
    /\ \E ttlSeconds \in {0, MaxTtl - 1} : cache = ShopDataCache(ttlSeconds)
    /\ lastSet = Null
    /\ scan = Null
    /\ served = 0

\* Bun.serve's fetch(req, server): the next request is handed to the handler
Fetch ==
    /\ pc \in {"idle", "done"}
    /\ served < MaxRequests
    /\ req' \in ServerRequests
    /\ served' = served + 1
    /\ pc' = "start"
    /\ thrown' = Null /\ resp' = Null /\ accessLog' = <<>> /\ file' = Null
    /\ virtualPath' = <<>> /\ absPath' = <<>> /\ resolved' = Null /\ consoleErr' = <<>>
    /\ ops' = <<>>
    /\ scan' = Null
    /\ UNCHANGED <<cfgVars, inflight, libVars, now, cache, lastSet>>

NextServer ==
    \/ Fetch
    \/ ErrorHandlerTry
    \/ Authorize
    \/ Timing
    \/ LoggingBefore
    \/ Router
    \/ IndexHandler
    \/ IndexExists
    \/ ShopHandler
    \/ \E d \in 1..MaxDirs : ScanTask(d)
    \/ ShopAwait
    \/ FilesDecode
    \/ ResolveSync
    \/ ResolveExists
    \/ FilesRespond
    \/ LoggingAfter
    \/ ErrorHandlerCatch
    \/ Tick

SpecServer == InitServer /\ [][NextServer]_vars

-----------------------------------------------------------------------------
(* Properties of the server (checked under SpecServer).                    *)

\* the Authorization values that are Basic credentials for user "u" with
\* password "p": "u:p" in base64 is "dTpw"
GoodAuthorization ==
    { Some(<<"B", "a", "s", "i", "c", " ", "d", "T", "p", "w">>),
      Some(<<"b", "a", "s", "i", "c", " ", "d", "T", "p", "w">>) }

Unauthorized == ~authPair.null /\ ~req.null /\ req.authorization \notin GoodAuthorization

OnRoute(r) ==
    \/ r.pathname \in { <<"/">>, <<"/", "t", "i", "n", "f", "o", "i", "l">> }
    \/ r.pathname \in { <<"/", "s", "h", "o", "p", ".", "j", "s", "o", "n">>,
                        <<"/", "s", "h", "o", "p", ".", "t", "f", "l">> }
    \/ (Len(r.pathname) >= 7 /\ SubSeq(r.pathname, 1, 7) = <<"/", "f", "i", "l", "e", "s", "/">>)

HandlerInvoked ==
    \/ \E i \in 1..Len(ops) : ops[i] \in {"indexHandler", "shopHandler"}
    \/ virtualPath # <<>>
    \/ consoleErr # <<>>

\* C17: on every route a request whose method is not GET, HEAD or OPTIONS
\* gets 405, a body naming the method and an Allow header, and the route
\* handler is not invoked.
C17_MethodNotAllowed ==
    (pc = "done" /\ ~Unauthorized /\ OnRoute(req) /\ req.method \notin {"GET", "HEAD", "OPTIONS"}) =>
        /\ resp.status = 405
        /\ HasHeader(resp, "Allow")
        /\ ~HandlerInvoked

\* C18: on every route, with or without credentials configured or supplied,
\* an OPTIONS request gets 204 with Allow, Access-Control-Allow-Methods and
\* Access-Control-Max-Age headers, and the route handler is not invoked.
C18_OptionsNoContent ==
    (pc = "done" /\ OnRoute(req) /\ req.method = "OPTIONS") =>
        /\ resp.status = 204
        /\ HasHeader(resp, "Allow")
        /\ HasHeader(resp, "Access-Control-Allow-Methods")
        /\ HasHeader(resp, "Access-Control-Max-Age")
        /\ ~HandlerInvoked

\* the scan of some directory has failed with an I/O error
ScanFailed == ~scan.null /\ \E d \in 1..Len(scan.tasks) : scan.tasks[d].error = "io"

\* C19: when the scan of a directory fails, the shop request is answered 500
\* without a listing, nothing of the build is stored in the cache, and the
\* cache is left empty for the next shop request.
C19_NoPartialListing ==
    (ScanFailed /\ pc \in {"catch", "loggingAfter", "done"}) =>
        /\ \A i \in 1..Len(ops) : ops[i] # "cache.set"
        /\ cache.data.null
        /\ lastSet.null
        /\ ~resp.null => (resp.status = 500 /\ resp.body.kind = "text")

C19_Witness ==
    /\ pc = "done"
    /\ req.pathname \in ShopPaths
    /\ ~scan.null
    /\ Len(scan.tasks) = 2
    /\ scan.tasks[2].error = "io"
    /\ Len(scan.fileEntries) = 1
    /\ resp.status = 500
    /\ resp.body = [kind |-> "text", text |-> "Error scanning libraries"]
    /\ cache.data.null

\* a shop request whose build has been awaited
ShopBuildEnded ==
    /\ ~req.null
    /\ req.pathname \in ShopPaths
    /\ ~scan.null
    /\ pc \in {"catch", "loggingAfter", "done"}

\* every directory's scan has run to its end and none met an I/O error
ScansCompletedWithoutIoError ==
    \A d \in 1..Len(scan.tasks) : scan.tasks[d].state # "scanning" /\ scan.tasks[d].error # "io"

\* C21: when every directory's scan completes without an I/O error (also
\* when no file matched), buildShopData resolves with a listing and does not
\* throw: the shop request gets the listing, not the scan failure.
C21_BuildResolves ==
    (ShopBuildEnded /\ ScansCompletedWithoutIoError) =>
        /\ thrown.null
        /\ pc # "catch"
        /\ ~resp.null => (resp.status = 200 /\ resp.body.kind = "json")

-----------------------------------------------------------------------------
(* Successful resolutions (checked under SpecResolve).                     *)

\* the segments of s: its maximal runs without "/", read left to right
RECURSIVE SegmentList(_)
SegmentList(s) ==
    IF s = <<>> THEN <<>>
    ELSE IF s[1] = "/" THEN SegmentList(Tail(s))
    ELSE LET n == CHOOSE k \in 1..Len(s) :
                      /\ \A i \in 1..k : s[i] # "/"
                      /\ k = Len(s) \/ s[k + 1] = "/"
         IN  <<SubSeq(s, 1, n)>> \o SegmentList(SubSeq(s, n + 1, Len(s)))

\* C22: a successful resolution returns the path of a configured directory
\* whose alias is the first segment of the request, a "/" and the remaining
\* segments joined by "/", none of them "." or "..".
C22_ResolvedUnderAlias ==
    (pc = "resolved" /\ ~resolved.null) =>
        LET segs == SegmentList(virtualPath)
        IN  /\ segs # <<>>
            /\ \E b \in 1..Len(BASES) :
                  /\ BASES[b].alias = segs[1]
                  /\ resolved.v.absPath = BASES[b].path \o <<"/">> \o Join(Tail(segs), <<"/">>)
            /\ \A k \in 2..Len(segs) : segs[k] \notin { <<".">>, <<".", ".">> }

C22_Witness ==
    /\ pc = "resolved"
    /\ ~resolved.null
    /\ virtualPath = <<"g", "-", "2", "/", "f">>
    /\ Len(BASES) = 2
    /\ BASES[2].alias = <<"g", "-", "2">>
    /\ resolved.v.absPath = <<"/", "b", "/", "g", "/", "f">>

-----------------------------------------------------------------------------
(* Expiry of the cache (checked under SpecCache).                          *)

\* C23: a get() that misses leaves no entry behind; an empty cache answers
\* every get() with a miss, whatever the clock reads; and only set() puts an
\* entry in: so after an expired miss every get() misses until the next set().
C23_ExpiredStaysDropped ==
    /\ []((call.fn = "cache.get" /\ ret = Some(Null)) => cache.data.null)
    /\ [][/\ (cache.data.null /\ call'.fn = "cache.get" /\ now' = now) =>
                (ret' = Some(Null) /\ cache'.data.null)
          /\ (cache.data.null /\ ~cache'.data.null) => call'.fn = "cache.set"]_vars

\* a miss at a clock reading inside the validity of the last set(): the
\* entry had expired before and the clock was set back
C23_Witness ==
    /\ call.fn = "cache.get"
    /\ ret = Some(Null)
    /\ ~lastSet.null
    /\ cache.ttlMs > 0
    /\ call.at < lastSet.v.at + cache.ttlMs
    /\ cache.data.null

-----------------------------------------------------------------------------
(* The shop handler and the cache (checked under SpecServer).              *)

\* cache.get() would miss now: nothing is stored, or what is stored has expired
GetMisses == cache.data.null \/ now - cache.timestamp > cache.ttlMs

InOps(name) == \E i \in 1..Len(ops) : ops[i] = name

\* C24: the shop handler starts a scan exactly when cache.get() misses; on a
\* hit it answers with the cached listing and starts no scan; and after a
\* miss whose build succeeded the cache holds the listing that was sent.
C24_ScanIffMiss ==
    /\ [][pc = "shop" =>
            IF GetMisses
            THEN pc' = "scanning" /\ ~scan'.null /\ resp'.null
            ELSE /\ scan' = Null
                 /\ pc' # "scanning"
                 /\ resp'.status = 200
                 /\ resp'.body = [kind |-> "json", json |-> cache.data.v]
                 /\ cache' = cache]_vars
    /\ []((pc \in {"loggingAfter", "done"} /\ InOps("cache.set")) =>
             /\ InOps("buildShopData")
             /\ cache.data = Some(resp.body.json)
             /\ resp.status = 200)

\* a second shop request answered from the cache
C24_Witness ==
    /\ pc = "done"
    /\ req.pathname = <<"/", "s", "h", "o", "p", ".", "t", "f", "l">>
    /\ served = 2
    /\ ops = <<"shopHandler", "cache.get">>
    /\ scan = Null
    /\ resp.status = 200
    /\ ~cache.data.null
    /\ resp.body = [kind |-> "json", json |-> cache.data.v]
    /\ now > cache.timestamp

-----------------------------------------------------------------------------
(* Concurrent shop requests: each is a call of shopHandler that yields at  *)
(* its await; cache.get() and cache.set() run to completion.               *)

InitConcurrent ==
    /\ thrown = Null /\ resp = Null /\ accessLog = <<>> /\ absPath = <<>>
    /\ resolved = Null /\ consoleErr = <<>> /\ file = Null /\ ops = <<>>
    /\ req = Null
    /\ virtualPath = <<>>
    /\ BASES \in { buildBaseAliases(dirs) : dirs \in ServerDirLists }
    /\ authPair = Null
    /\ call = [fn |-> "shopHandler"]
    /\ ret = Null
    /\ pc = "idle"
    /\ now = 0
    /\ \E ttlSeconds \in {0, MaxTtl - 1} : cache = ShopDataCache(ttlSeconds)
    /\ lastSet = Null
    /\ scan = Null
    /\ served = 0
    /\ inflight = [i \in 1..MaxShopRequests |->
                      [pc |-> "shop", scan |-> Null, got |-> Null, resp |-> Null]]

\* request i runs shopHandler up to await buildShopData(), or to its end on a hit
ConcShopHandler(i) ==
    /\ inflight[i].pc = "shop"
    /\ cache' = CacheAfterGet(cache, now)
    /\ LET shopData == CacheGetResult(cache, now)
       IN  IF shopData.null
           THEN inflight' = [inflight EXCEPT ![i].pc = "scanning",
                                             ![i].got = Some(Null),
                                             ![i].scan = NewScan(BASES)]
           ELSE inflight' = [inflight EXCEPT ![i].pc = "done",
                                             ![i].got = Some(shopData),
                                             ![i].resp = ShopResponse([pathname |-> <<"/", "s", "h", "o", "p", ".", "j", "s", "o", "n">>], shopData.v)]
    /\ UNCHANGED <<cfgVars, libVars, resolverVars, chainVars, now, lastSet, scan, served, pc, ops>>

\* a scan task of request i's build takes its turn
ConcScanTask(i, d) ==
    /\ inflight[i].pc = "scanning"
    /\ d \in 1..Len(inflight[i].scan.tasks)
    /\ inflight[i].scan.tasks[d].state = "scanning"
    /\ \E ok \in BOOLEAN :
          inflight' = [inflight EXCEPT ![i].scan = ScanTurn(BASES, @, d, ok)]
    /\ UNCHANGED <<cfgVars, libVars, resolverVars, chainVars, shopVars, pc, ops>>

\* request i resumes after await buildShopData()
ConcShopAwait(i) ==
    /\ inflight[i].pc = "scanning"
    /\ PromiseAll(inflight[i].scan.tasks) # "pending"
    /\ IF PromiseAll(inflight[i].scan.tasks) = "rejected"
       THEN /\ inflight' = [inflight EXCEPT ![i].pc = "done", ![i].resp = ServiceErrorResponse(
                                ServiceError(500, "Error scanning libraries"))]
            /\ UNCHANGED <<cache, lastSet>>
       ELSE LET shopData == ShopDataOf(BASES, inflight[i].scan)
            IN  /\ cache' = CacheSet(cache, shopData, now)
                /\ lastSet' = Some([at |-> now, data |-> shopData])
                /\ inflight' = [inflight EXCEPT
                       ![i].pc = "done",
                       ![i].resp = ShopResponse([pathname |-> <<"/", "s", "h", "o", "p", ".", "j", "s", "o", "n">>], shopData)]
    /\ UNCHANGED <<cfgVars, libVars, resolverVars, chainVars, now, scan, served, pc, ops>>

NextConcurrent ==
    \/ \E i \in 1..MaxShopRequests : ConcShopHandler(i)
    \/ \E i \in 1..MaxShopRequests, d \in 1..MaxDirs : ConcScanTask(i, d)
    \/ \E i \in 1..MaxShopRequests : ConcShopAwait(i)
    \/ Tick

SpecConcurrent == InitConcurrent /\ [][NextConcurrent]_vars

(* Properties of concurrent shop requests (checked under SpecConcurrent). *)

\* request i missed, and no scan of its build met an I/O error
MissedWithoutIoError(i) ==
    /\ inflight[i].got = Some(Null)
    /\ \A d \in 1..Len(inflight[i].scan.tasks) : inflight[i].scan.tasks[d].error # "io"

\* C25: what the cache holds is one listing with the timestamp of the set()
\* that stored it; a get() returns a miss or that listing, judged against
\* that timestamp; and every concurrent miss runs its own scan and answers
\* with its own complete listing.
C25_WholeListings ==
    /\ [](~cache.data.null =>
             lastSet = Some([at |-> cache.timestamp, data |-> cache.data.v]))
    /\ [][\A i \in 1..MaxShopRequests :
             (inflight[i].pc = "shop" /\ inflight'[i].pc # "shop") =>
                 \/ inflight'[i].got = Some(Null) /\ ~inflight'[i].scan.null
                 \/ /\ ~lastSet.null
                    /\ inflight'[i].got = Some(Some(lastSet.v.data))
                    /\ now - lastSet.v.at <= cache.ttlMs]_vars
    /\ [](\A i \in 1..MaxShopRequests :
             (inflight[i].pc = "done" /\ MissedWithoutIoError(i)) =>
                 /\ inflight[i].resp.status = 200
                 /\ inflight[i].resp.body = [kind |-> "json", json |-> ShopDataOf(BASES, inflight[i].scan)])

-----------------------------------------------------------------------------
(* The scans of one build (checked under SpecServer).                      *)

\* C26: while several directories are being scanned, no scan writes to
\* state that another scan writes too: the collections of the build are not
\* touched before the scans have ended.
C26_ScansPrivate ==
    [][(pc = "scanning" /\ pc' = "scanning" /\ Len(scan.tasks) > 1) =>
          /\ scan'.fileEntries = scan.fileEntries
          /\ scan'.directories = scan.directories]_vars

\* what the two configured directories hold, as the listing advertises it:
\* /a/g (alias g) holds f, /b/g (alias g-2) holds "d/f f"
ExpectedFileUrls ==
    IF BASES = <<>> THEN {}
    ELSE { <<".", ".", "/", "f", "i", "l", "e", "s", "/", "g", "/", "f">>,
           <<".", ".", "/", "f", "i", "l", "e", "s", "/", "g", "-", "2", "/", "d", "/", "f", "%", "2", "0", "f">> }

ExpectedDirectories ==
    IF BASES = <<>> THEN {}
    ELSE { <<".", ".", "/", "f", "i", "l", "e", "s", "/", "g">>,
           <<".", ".", "/", "f", "i", "l", "e", "s", "/", "g", "-", "2", "/", "d">> }

\* C27: whatever the order in which the scans make progress, when they have
\* completed the request is answered with a listing that has exactly one
\* file entry per matched file and exactly the distinct parent directories
\* (the alias itself for a file directly under a root).
C27_ExactListing ==
    (ShopBuildEnded /\ ScansCompletedWithoutIoError /\ pc = "done") =>
        /\ resp.status = 200
        /\ resp.body.kind = "json"
        /\ LET files == resp.body.json.files
               dirs == resp.body.json.directories
           IN  /\ {files[i].url : i \in 1..Len(files)} = ExpectedFileUrls
               /\ Len(files) = Cardinality(ExpectedFileUrls)
               /\ {dirs[i] : i \in 1..Len(dirs)} = ExpectedDirectories
               /\ Len(dirs) = Cardinality(ExpectedDirectories)

-----------------------------------------------------------------------------
(* middleware/compose.ts: compose, called directly as the unit tests call  *)
(* it, under errorHandler as setupServer wraps it.  A handler is what a    *)
(* call of it does: the stage events in order, and how the call ends.      *)

\* (mutant) a stage that runs its part after next before it calls next
ApplyMiddleware_AfterBeforeNext(middleware, next) ==
    IF middleware.kind = "pass"
    THEN [trace |-> <<[stage |-> middleware.name, part |-> "before"], [stage |-> middleware.name, part |-> "after"]>> \o next.trace,
          outcome |-> next.outcome]
    ELSE [trace |-> <<[stage |-> middleware.name, part |-> "before"]>>,
          outcome |-> IF middleware.kind = "throw" THEN "thrown" ELSE "response"]

\* (req, ctx) => middleware(req, ctx, next), for a stage that awaits next
\* and goes on ("pass"), throws before next ("throw") or returns a response
\* of its own without calling next ("return")
ApplyMiddleware(middleware, next) ==
    IF middleware.kind = "pass"
    THEN [trace |-> <<[stage |-> middleware.name, part |-> "before"]>> \o next.trace
                    \o (IF next.outcome = "response"
                        THEN <<[stage |-> middleware.name, part |-> "after"]>> ELSE <<>>),
          outcome |-> next.outcome]
    ELSE [trace |-> <<[stage |-> middleware.name, part |-> "before"]>>,
          outcome |-> IF middleware.kind = "throw" THEN "thrown" ELSE "response"]

\* middlewares.reduceRight((next, middleware) => ..., handler)
RECURSIVE compose(_, _)
compose(middlewares, handler) ==
    IF middlewares = <<>> THEN handler
    ELSE compose(SubSeq(middlewares, 1, Len(middlewares) - 1),
                 ApplyMiddleware(middlewares[Len(middlewares)], handler))

\* errorHandler(handler): try { return await handler() } catch { respond }
errorHandler(handler) ==
    [trace |-> <<[stage |-> "errorHandler", part |-> "try"]>> \o handler.trace
               \o (IF handler.outcome = "thrown"
                   THEN <<[stage |-> "errorHandler", part |-> "catch"]>> ELSE <<>>),
     outcome |-> "response"]

\* the stages of setupServer, authorize letting through or throwing, and a
\* stage that answers by itself
MiddlewarePool ==
    { [name |-> "authorize", kind |-> "pass"], [name |-> "authorize", kind |-> "throw"],
      [name |-> "timing", kind |-> "pass"], [name |-> "logging", kind |-> "pass"],
      [name |-> "m", kind |-> "return"] }

InitCompose ==
    /\ InitIdle
    /\ InitShopIdle
    /\ req = Null
    /\ virtualPath = <<>>
    /\ BASES = <<>>
    /\ authPair = Null
    /\ pc = "lib"
    /\ \E middlewares \in SeqsUpTo(MiddlewarePool, MaxStages), outcome \in {"response", "thrown"} :
          call = [fn |-> "compose", middlewares |-> middlewares,
                  handler |-> [trace |-> <<[stage |-> "router", part |-> "call"]>>, outcome |-> outcome]]
    /\ ret = Null

\* await errorHandler(compose(middlewares, handler))(req, ctx)
CallComposed ==
    /\ pc = "lib"
    /\ call.fn = "compose"
    /\ ret = Null
    /\ ret' = Some(errorHandler(compose(call.middlewares, call.handler)))
    /\ UNCHANGED <<cfgVars, inflight, shopVars, call, resolverVars, chainVars, pc, ops>>

SpecCompose == InitCompose /\ [][CallComposed]_vars

(* Properties of compose (checked under SpecCompose). *)

\* C28: the composed chain runs errorHandler's try, the parts before next of
\* the stages in list order up to the first stage that throws or answers by
\* itself, the handler if no stage did, then the parts after next in reverse
\* order unless something threw, in which case errorHandler's catch follows
\* at once; no stage behind the one that stopped, nor the handler, has run.
C28_Onion ==
    (call.fn = "compose" /\ ~ret.null) =>
        LET ms == call.middlewares
            n == Len(ms)
            stops == {i \in 1..n : ms[i].kind # "pass"}
            k == IF stops = {} THEN n + 1 ELSE CHOOSE i \in stops : \A j \in stops : i <= j
            entered == IF k <= n THEN k ELSE n
            threw == IF k <= n THEN ms[k].kind = "throw" ELSE call.handler.outcome = "thrown"
            t == ret.v.trace
            inward == 1 + entered + (IF k = n + 1 THEN 1 ELSE 0)
        IN  /\ t[1] = [stage |-> "errorHandler", part |-> "try"]
            /\ \A i \in 1..entered : t[1 + i] = [stage |-> ms[i].name, part |-> "before"]
            /\ k = n + 1 => t[n + 2] = [stage |-> "router", part |-> "call"]
            /\ IF threw
               THEN /\ Len(t) = inward + 1
                    /\ t[Len(t)] = [stage |-> "errorHandler", part |-> "catch"]
               ELSE /\ Len(t) = inward + (k - 1)
                    /\ \A j \in 1..(k - 1) :
                          t[Len(t) - j + 1] = [stage |-> ms[j].name, part |-> "after"]
            /\ ret.v.outcome = "response"

\* the chain of setupServer, every stage letting the request through
C28_Witness ==
    /\ call.fn = "compose"
    /\ ~ret.null
    /\ Len(call.middlewares) = 3
    /\ [i \in 1..3 |-> call.middlewares[i].name] = <<"authorize", "timing", "logging">>
    /\ ret.v.trace = << [stage |-> "errorHandler", part |-> "try"],
                        [stage |-> "authorize", part |-> "before"],
                        [stage |-> "timing", part |-> "before"],
                        [stage |-> "logging", part |-> "before"],
                        [stage |-> "router", part |-> "call"],
                        [stage |-> "logging", part |-> "after"],
                        [stage |-> "timing", part |-> "after"],
                        [stage |-> "authorize", part |-> "after"] >>

-----------------------------------------------------------------------------
(* From the listing back to the file: a file the scan of a directory       *)
(* matches, its advertised path, and the resolution of that path as the    *)
(* files handler asks for it.                                              *)

\* relative paths glob.scan can yield: plain, in a directory, with a space or
\* a "%" in the name, and in a directory whose name is a single space
ScannedFiles ==
    { <<"f">>, <<"d", "/", "f", " ", "f">>, <<"f", "%">>, <<" ", "/", "f">> }

InitAdvertised ==
    /\ InitIdle
    /\ InitShopIdle
    /\ req = Null
    /\ virtualPath = <<>>
    /\ authPair = Null
    /\ ret = Null
    /\ pc = "advertise"
    /\ \E dirs \in DirLists : BASES = buildBaseAliases(dirs)
    /\ \E d \in 1..Len(BASES), f \in ScannedFiles :
          call = [fn |-> "advertise", alias |-> BASES[d].alias, file |-> f,
                  absPath |-> BASES[d].path \o <<"/">> \o f]

\* the entry's path is encoded for the listing (shop.ts 26, 42) and, when a
\* client asks for it, decoded by the files handler (files.ts 12-13)
Advertise ==
    /\ pc = "advertise"
    /\ LET encoded == encodePath(call.alias \o <<"/">> \o call.file)
           decodedPath == decodeURIComponent(FilesPrefix \o encoded)
       IN  IF decodedPath.null
           THEN /\ ret' = Some(URIError)
                /\ pc' = "resolved"
                /\ UNCHANGED virtualPath
           ELSE /\ virtualPath' = ReplaceFirst(decodedPath.v, FilesPrefix, <<>>)
                /\ ret' = Some(encoded)
                /\ pc' = "resolve"
    /\ UNCHANGED <<cfgVars, inflight, shopVars, call, absPath, resolved, consoleErr, chainVars, ops>>

SpecAdvertised == InitAdvertised /\ [][Advertise \/ ResolveSync \/ ResolveExists]_vars

(* Properties of advertised paths (checked under SpecAdvertised). *)

\* the file system answered that the candidate path does not exist
FileNotFoundLogged ==
    \E i \in 1..Len(consoleErr) : consoleErr[i] = "[PATH] File not found"

\* C29: the advertised path of every scanned file, decoded and resolved
\* against the same directories with the file still there, resolves to the
\* absolute path the scan recorded for it.
C29_AdvertisedResolves ==
    (call.fn = "advertise" /\ pc = "resolved" /\ ~FileNotFoundLogged) =>
        /\ ~resolved.null
        /\ resolved.v.absPath = call.absPath

-----------------------------------------------------------------------------
(* The access log (checked under SpecServer).                              *)

\* C30: a finished request has exactly one access-log entry, with its
\* method, path and the status of its response; nothing is logged before
\* the response or the error is there; the entry of a returned response is
\* written by the logging stage, the entry of a thrown error by errorHandler
\* alone, with the error's status or 500.
C30_OneLogEntry ==
    /\ [](/\ pc = "done" =>
                accessLog = <<[method |-> req.method, pathname |-> req.pathname,
                               status |-> resp.status]>>
          /\ pc \notin {"done", "idle"} => accessLog = <<>>)
    /\ [][(accessLog' # accessLog /\ served' = served) =>
             /\ Len(accessLog') = 1
             /\ IF thrown.null
                THEN pc = "loggingAfter" /\ accessLog'[1].status = resp.status
                ELSE /\ pc = "catch"
                     /\ accessLog'[1].status =
                           (IF thrown.name = "ServiceError" THEN thrown.statusCode ELSE 500)]_vars

\* a request whose handler threw: logged once, by errorHandler, as 404
C30_Witness ==
    /\ pc = "done"
    /\ req.method = "HEAD"
    /\ req.pathname = <<"/", "f", "i", "l", "e", "s", "/", "g", "/", "f">>
    /\ resp.status = 404
    /\ accessLog = <<[method |-> "HEAD", pathname |-> req.pathname, status |-> 404]>>

=============================================================================
